---- MODULE Spec2Model ----
(***************************************************************************)
(* Model of evse_window.py: expansion of hour-ending prices to a           *)
(* per-minute series, the sliding-window search for the cheapest charge    *)
(* window, its padding and awake-until adjustment, and the RAPI layer      *)
(* (checksum framing, response validation, set-if-different write).        *)
(*                                                                         *)
(* A datetime is a number of minutes since 00:00 of day 0; a time of day   *)
(* is a number of minutes since midnight.  A string is a sequence of       *)
(* one-character strings.  Prices are integers (tenths of the feed unit).  *)
(***************************************************************************)
EXTENDS Integers, Sequences, FiniteSets, TLC

VARIABLES
    pc,             \* position in main / find_optimal_window / set_schedule
    error,          \* exception raised ("none" while running normally)
    failed_in,      \* the call that raised: "none", "window", "query", "set"
    hourly,         \* argument rates of find_optimal_window (hour-ending points)
    charge_h2,      \* argument charge_hours, in half minutes (charge_hours*60 = charge_h2/2)
    awake_until,    \* argument awake_until (NoTime = None)
    charge_minutes, \* local charge_minutes
    rates,          \* local rates after convert_rates
    windows,        \* local windows
    start_idx,      \* local start_idx
    end_idx,        \* local end_idx
    start,          \* local start
    end,            \* local end
    sent,           \* rapi parameters handed to the transport, in order
    dev_value,      \* value the device put in its last response
    ret,            \* parsed['ret'] of the last response, as received
    ret_value       \* response['ret_value'] of the last accepted response

vars == <<pc, error, failed_in, hourly, charge_h2, awake_until, charge_minutes,
          rates, windows, start_idx, end_idx, start, end,
          sent, dev_value, ret, ret_value>>

-----------------------------------------------------------------------------
(* Bounds of the model *)

MaxHours == 2
MaxPrice == 1

(* Program constants *)

NoTime == -1
MinutesPerHour == 60
RateScale == 10
PadMinutes == 1
MinutesPerDay == 1440

-----------------------------------------------------------------------------
(* datetime / time helpers *)

TimeOf(t) == t % MinutesPerDay
DateOf(t) == t \div MinutesPerDay
Combine(d, tm) == d * MinutesPerDay + tm
HourOf(t) == TimeOf(t) \div MinutesPerHour
MinuteOf(t) == t % MinutesPerHour

(* round(): nearest integer, ties to the even one; x is given as h2/2 *)
Round(h2) ==
    IF h2 % 2 = 0 THEN h2 \div 2
    ELSE LET f == (h2 - 1) \div 2
         IN  IF f % 2 = 0 THEN f ELSE f + 1

-----------------------------------------------------------------------------
(* Inputs *)

FirstHourEnds == {24 * 60}
HourSteps == {60, 120}
AwakeTimes == {NoTime, 30, 7 * 60, 23 * 60 + 30}
Charge2Values ==
    (-2 .. 5) \cup {2 * MinutesPerHour * k + d : k \in 1 .. MaxHours, d \in {-2, 0}}

RECURSIVE HourEnd(_, _, _)
HourEnd(first, steps, k) ==
    IF k = 1 THEN first ELSE HourEnd(first, steps, k - 1) + steps[k - 1]

HourlyInputs ==
    UNION { { [k \in 1 .. n |-> [t |-> HourEnd(first, steps, k), price |-> prices[k]]] :
                first \in FirstHourEnds,
                steps \in [1 .. (IF n = 0 THEN 0 ELSE n - 1) -> HourSteps],
                prices \in [1 .. n -> 0 .. MaxPrice] } : n \in 0 .. MaxHours }

-----------------------------------------------------------------------------
(* convert_rates; convert_rates_late is the variant that shifts every minute
   to its end *)

convert_rates_late(rs) ==
    [m \in 1 .. MinutesPerHour * Len(rs) |->
        LET h == ((m - 1) \div MinutesPerHour) + 1
            offset == (m - 1) % MinutesPerHour
        IN  [t |-> (rs[h].t - MinutesPerHour) + offset + 1, price |-> rs[h].price]]

convert_rates(rs) ==
    [m \in 1 .. MinutesPerHour * Len(rs) |->
        LET h == ((m - 1) \div MinutesPerHour) + 1
            offset == (m - 1) % MinutesPerHour
        IN  [t |-> (rs[h].t - MinutesPerHour) + offset, price |-> rs[h].price]]

-----------------------------------------------------------------------------
(* Python list semantics used by find_optimal_window *)

(* stop bound of s[i:j] for a list of length n *)
SliceStop(n, j) ==
    IF j < 0 THEN (IF j + n < 0 THEN 0 ELSE j + n)
    ELSE IF j > n THEN n ELSE j

(* start bound of s[i:j] for a list of length n *)
SliceStart(n, i) ==
    IF i < 0 THEN (IF i + n < 0 THEN 0 ELSE i + n)
    ELSE IF i > n THEN n ELSE i

(* s[k] is defined *)
IndexOk(n, k) == (k >= 0 /\ k < n) \/ (k < 0 /\ k + n >= 0)

(* s[k], 0-based with negative indices counted from the end *)
PyIndex(s, k) == IF k < 0 THEN s[k + Len(s) + 1] ELSE s[k + 1]

(* sum(r[1] * 10 for r in rs[lo:hi]) with lo, hi already normalised; the
   additions are grouped by halves to keep the evaluation shallow *)
RECURSIVE ScaledSum(_, _, _)
ScaledSum(rs, lo, hi) ==
    IF lo >= hi THEN 0
    ELSE IF hi = lo + 1 THEN rs[lo + 1].price * RateScale
    ELSE LET mid == (lo + hi) \div 2
         IN  ScaledSum(rs, lo, mid) + ScaledSum(rs, mid, hi)

WindowCost(rs, i, cm) ==
    ScaledSum(rs, SliceStart(Len(rs), i), SliceStop(Len(rs), i + cm))

(* windows = [0.0] * (len(rates) - charge_minutes + 1), then filled *)
ComputeWindows(rs, cm) ==
    LET n == Len(rs) - cm + 1
    IN  IF n <= 0 THEN << >>
        ELSE [i \in 1 .. n |-> WindowCost(rs, i - 1, cm)]

(* min(range(len(windows)), key=windows.__getitem__): an index is replaced
   only by a later one with a strictly smaller key, so the first minimal index
   is returned; the scan of 0-based indices lo .. hi-1 is grouped by halves *)
RECURSIVE MinScan(_, _, _)
MinScan(w, lo, hi) ==
    IF hi = lo + 1 THEN lo
    ELSE LET mid == (lo + hi) \div 2
             l == MinScan(w, lo, mid)
             r == MinScan(w, mid, hi)
         IN  IF w[r + 1] < w[l + 1] THEN r ELSE l

(* variants of the scan: the first maximal index, the last minimal index *)
RECURSIVE MaxScan(_, _, _)
MaxScan(w, lo, hi) ==
    IF hi = lo + 1 THEN lo
    ELSE LET mid == (lo + hi) \div 2
             l == MaxScan(w, lo, mid)
             r == MaxScan(w, mid, hi)
         IN  IF w[r + 1] > w[l + 1] THEN r ELSE l

RECURSIVE LastMinScan(_, _, _)
LastMinScan(w, lo, hi) ==
    IF hi = lo + 1 THEN lo
    ELSE LET mid == (lo + hi) \div 2
             l == LastMinScan(w, lo, mid)
             r == LastMinScan(w, mid, hi)
         IN  IF w[r + 1] <= w[l + 1] THEN r ELSE l

MaxIndex(w) == MaxScan(w, 0, Len(w))
LastMinIndex(w) == LastMinScan(w, 0, Len(w))

MinIndex(w) == MinScan(w, 0, Len(w))

(* the awake-until adjustment of end; AwakeAdjustAlways is the variant
   without the time-of-day comparison *)
AwakeAdjustAlways(e, awake) ==
    IF awake # NoTime THEN Combine(DateOf(e), awake) ELSE e

AwakeAdjust(e, awake) ==
    IF awake # NoTime /\ TimeOf(e) < awake THEN Combine(DateOf(e), awake) ELSE e

-----------------------------------------------------------------------------
(* find_optimal_window, one action per statement group *)

(* raise: the exception ends the run; FailContinue is the variant in which
   set_schedule carries on after a failed query *)
FailContinue(where, what) ==
    /\ pc' = IF where = "query" THEN "rapi_compare" ELSE "failed"
    /\ error' = what
    /\ failed_in' = where

Fail(where, what) ==
    /\ pc' = "failed"
    /\ error' = what
    /\ failed_in' = where

Running(next) ==
    /\ pc' = next
    /\ UNCHANGED <<error, failed_in>>

UnchangedArgs == UNCHANGED <<hourly, charge_h2, awake_until>>
UnchangedRapi == UNCHANGED <<sent, dev_value, ret, ret_value>>

(* lines 69-70 *)
FowConvert ==
    /\ pc = "fow_convert"
    /\ charge_minutes' = Round(charge_h2)
    /\ rates' = convert_rates(hourly)
    /\ Running("fow_windows")
    /\ UnchangedArgs /\ UnchangedRapi
    /\ UNCHANGED <<windows, start_idx, end_idx, start, end>>

(* lines 73-76 *)
FowWindows ==
    /\ pc = "fow_windows"
    /\ windows' = ComputeWindows(rates, charge_minutes)
    /\ Running("fow_select")
    /\ UnchangedArgs /\ UnchangedRapi
    /\ UNCHANGED <<charge_minutes, rates, start_idx, end_idx, start, end>>

(* lines 78-79; min() of an empty range raises ValueError *)
FowSelect ==
    /\ pc = "fow_select"
    /\ IF windows = << >>
       THEN /\ Fail("window", "ValueError")
            /\ UNCHANGED <<start_idx, end_idx>>
       ELSE /\ start_idx' = MinIndex(windows)
            /\ end_idx' = MinIndex(windows) + charge_minutes
            /\ Running("fow_index")
    /\ UnchangedArgs /\ UnchangedRapi
    /\ UNCHANGED <<charge_minutes, rates, windows, start, end>>

(* lines 81-82; an index outside the list raises IndexError *)
FowIndex ==
    /\ pc = "fow_index"
    /\ IF ~IndexOk(Len(rates), start_idx)
       THEN /\ Fail("window", "IndexError")
            /\ UNCHANGED <<start, end>>
       ELSE IF ~IndexOk(Len(rates), end_idx)
       THEN /\ Fail("window", "IndexError")
            /\ start' = PyIndex(rates, start_idx).t
            /\ UNCHANGED end
       ELSE /\ start' = PyIndex(rates, start_idx).t
            /\ end' = PyIndex(rates, end_idx).t
            /\ Running("fow_pad")
    /\ UnchangedArgs /\ UnchangedRapi
    /\ UNCHANGED <<charge_minutes, rates, windows, start_idx, end_idx>>

(* lines 86-88 *)
FowPad ==
    /\ pc = "fow_pad"
    /\ start' = start + PadMinutes
    /\ end' = end - PadMinutes
    /\ Running("fow_awake")
    /\ UnchangedArgs /\ UnchangedRapi
    /\ UNCHANGED <<charge_minutes, rates, windows, start_idx, end_idx>>

(* lines 91-92 *)
FowAwake ==
    /\ pc = "fow_awake"
    /\ end' = AwakeAdjust(end, awake_until)
    /\ Running("fow_return")
    /\ UnchangedArgs /\ UnchangedRapi
    /\ UNCHANGED <<charge_minutes, rates, windows, start_idx, end_idx, start>>

(* line 94 and main's line 157: the locals of find_optimal_window go out of
   scope, main keeps start and end *)
FowReturn ==
    /\ pc = "fow_return"
    /\ hourly' = << >>
    /\ charge_h2' = 0
    /\ awake_until' = NoTime
    /\ charge_minutes' = 0
    /\ rates' = << >>
    /\ windows' = << >>
    /\ start_idx' = 0
    /\ end_idx' = 0
    /\ Running("main_rapi")
    /\ UnchangedRapi
    /\ UNCHANGED <<start, end>>

-----------------------------------------------------------------------------
(* RAPI: strings, checksum, framing *)

(* ord() of the characters the protocol uses *)
Ord ==
    [c \in {" ", "$", "^", "0", "1", "2", "3", "4", "5", "6", "7", "8", "9",
            "A", "B", "C", "D", "E", "F", "G", "K", "N", "O", "S", "T"} |->
        CASE c = " " -> 32 [] c = "$" -> 36 [] c = "^" -> 94
          [] c = "0" -> 48 [] c = "1" -> 49 [] c = "2" -> 50 [] c = "3" -> 51
          [] c = "4" -> 52 [] c = "5" -> 53 [] c = "6" -> 54 [] c = "7" -> 55
          [] c = "8" -> 56 [] c = "9" -> 57
          [] c = "A" -> 65 [] c = "B" -> 66 [] c = "C" -> 67 [] c = "D" -> 68
          [] c = "E" -> 69 [] c = "F" -> 70 [] c = "G" -> 71 [] c = "K" -> 75
          [] c = "N" -> 78 [] c = "O" -> 79 [] c = "S" -> 83 [] c = "T" -> 84]

DigitChars == <<"0", "1", "2", "3", "4", "5", "6", "7", "8", "9",
                "A", "B", "C", "D", "E", "F">>

(* a ^ b on non-negative integers *)
RECURSIVE Xor(_, _)
Xor(a, b) ==
    IF a = 0 THEN b
    ELSE IF b = 0 THEN a
    ELSE 2 * Xor(a \div 2, b \div 2) + ((a + b) % 2)

(* digits of n >= 0 in the given base, no padding: str(n), hex(n)[2:].upper() *)
RECURSIVE ToBase(_, _)
ToBase(n, base) ==
    IF n < base THEN <<DigitChars[n + 1]>>
    ELSE Append(ToBase(n \div base, base), DigitChars[(n % base) + 1])

Str(n) == ToBase(n, 10)

RECURSIVE XorChars(_, _)
XorChars(cmd, k) ==
    IF k = 0 THEN 0 ELSE Xor(XorChars(cmd, k - 1), Ord[cmd[k]])

checksum(cmd) == ToBase(XorChars(cmd, Len(cmd)), 16)

cmd_with_checksum(cmd) == cmd \o <<"^">> \o checksum(cmd)

(* s.split('^') *)
RECURSIVE Split(_)
Split(s) ==
    IF \A k \in 1 .. Len(s) : s[k] # "^" THEN <<s>>
    ELSE LET k == CHOOSE i \in 1 .. Len(s) :
                      s[i] = "^" /\ \A j \in 1 .. (i - 1) : s[j] # "^"
         IN  <<SubSeq(s, 1, k - 1)>> \o Split(SubSeq(s, k + 1, Len(s)))

(* validation in execute_cmd: the exception raised on parsed['ret'] = r, or "none" *)
ValidateError(r) ==
    LET parts == Split(r)
    IN  IF Len(parts) < 2 THEN "IndexError"
        ELSE IF parts[2] # checksum(parts[1]) THEN "ChecksumMismatch"
        ELSE "none"

RetValue(r) == Split(r)[1]

ScheduleArgs(s, e) ==
    Str(HourOf(s)) \o <<" ">> \o Str(MinuteOf(s)) \o <<" ">> \o
    Str(HourOf(e)) \o <<" ">> \o Str(MinuteOf(e))

QueryCmd == <<"$", "G", "D">>

Expected(s, e) == <<"$", "O", "K", " ">> \o ScheduleArgs(s, e)

(* SetCmdSwapped is the variant with start and end exchanged *)
SetCmdSwapped(s, e) == <<"$", "S", "T", " ">> \o ScheduleArgs(e, s)

SetCmd(s, e) == <<"$", "S", "T", " ">> \o ScheduleArgs(s, e)

-----------------------------------------------------------------------------
(* The device and the transport, as far as set_schedule can observe them *)

NoiseChars == {"^", "0", " "}

(* values the device may report for $GD *)
DeviceValues(s, e) ==
    { Expected(s, e),
      <<"$", "O", "K", " ", "0", " ", "0", " ", "0", " ", "0">>,
      <<"$", "O", "K", " ", "0", " ", "0", " ", "0", " ", "3", "0">> }

(* values the device may answer to $ST *)
AckValues == { <<"$", "O", "K">>, <<"$", "N", "K">> }

(* what arrives as parsed['ret'] when the device answers value: the framed
   value, or the framed value with one character of the value replaced *)
Responses(value) ==
    { cmd_with_checksum(value) } \cup
    { [cmd_with_checksum(value) EXCEPT ![x[1]] = x[2]] :
        x \in { y \in (1 .. Len(value)) \X NoiseChars : value[y[1]] # y[2] } }

-----------------------------------------------------------------------------
(* main after find_optimal_window, and RAPI.set_schedule *)

UnchangedWindow ==
    UNCHANGED <<hourly, charge_h2, awake_until, charge_minutes, rates, windows,
                start_idx, end_idx, start, end>>

(* execute_cmd(cmd) called from stage where; on success control goes to next *)
execute_cmd(cmd, values, where, next) ==
    /\ sent' = Append(sent, cmd_with_checksum(cmd))
    /\ \/ \* response.raise_for_status() raises
          /\ Fail(where, "HTTPError")
          /\ UNCHANGED <<dev_value, ret, ret_value>>
       \/ \E value \in values : \E r \in Responses(value) :
            /\ dev_value' = value
            /\ ret' = r
            /\ IF ValidateError(r) # "none"
               THEN /\ Fail(where, ValidateError(r))
                    /\ UNCHANGED ret_value
               ELSE /\ ret_value' = RetValue(r)
                    /\ Running(next)

(* main line 159 with an empty --rapi-url *)
MainSkipRapi ==
    /\ pc = "main_rapi"
    /\ Running("done")
    /\ UnchangedWindow /\ UnchangedRapi

(* main lines 159-161, set_schedule line 131 *)
SetScheduleQuery ==
    /\ pc = "main_rapi"
    /\ execute_cmd(QueryCmd, DeviceValues(start, end), "query", "rapi_compare")
    /\ UnchangedWindow

(* set_schedule lines 132-134 *)
SetScheduleSkip ==
    /\ pc = "rapi_compare"
    /\ ret_value = Expected(start, end)
    /\ Running("done")
    /\ UnchangedWindow /\ UnchangedRapi

(* set_schedule lines 132-133, 135-138 *)
SetScheduleWrite ==
    /\ pc = "rapi_compare"
    /\ ret_value # Expected(start, end)
    /\ execute_cmd(SetCmd(start, end), AckValues, "set", "done")
    /\ UnchangedWindow

-----------------------------------------------------------------------------

Init ==
    /\ pc = "fow_convert"
    /\ error = "none"
    /\ failed_in = "none"
    /\ hourly \in HourlyInputs
    /\ charge_h2 \in Charge2Values
    /\ awake_until \in AwakeTimes
    /\ charge_minutes = 0
    /\ rates = << >>
    /\ windows = << >>
    /\ start_idx = 0
    /\ end_idx = 0
    /\ start = 0
    /\ end = 0
    /\ sent = << >>
    /\ dev_value = << >>
    /\ ret = << >>
    /\ ret_value = << >>

Next ==
    \/ FowConvert
    \/ FowWindows
    \/ FowSelect
    \/ FowIndex
    \/ FowPad
    \/ FowAwake
    \/ FowReturn
    \/ MainSkipRapi
    \/ SetScheduleQuery
    \/ SetScheduleSkip
    \/ SetScheduleWrite

Spec == Init /\ [][Next]_vars

-----------------------------------------------------------------------------
(* Properties *)

(* find_optimal_window has just selected a window, or is about to return it *)
Selected == pc \in {"fow_index", "fow_return"}

(* 1 <= charge_minutes < length of the per-minute series *)
ValidDuration == charge_minutes >= 1 /\ charge_minutes < Len(rates)

(* every hourly point ends one hour after the previous one *)
Contiguous(rs) == \A k \in 1 .. (Len(rs) - 1) : rs[k + 1].t = rs[k].t + 60

(* price sum of the count minutes starting at 0-based minute first *)
RECURSIVE PriceSum(_, _, _)
PriceSum(rs, first, count) ==
    IF count = 0 THEN 0
    ELSE IF count = 1 THEN rs[first + 1].price
    ELSE LET half == count \div 2
         IN  PriceSum(rs, first, half) + PriceSum(rs, first + half, count - half)

(* 0-based start indices of the windows that fit inside the series *)
Fitting == 0 .. (Len(rates) - charge_minutes)

UnpaddedStart == PyIndex(rates, start_idx).t
UnpaddedEnd == PyIndex(rates, end_idx).t

(* C1: for a valid duration the selected window's price sum is <= the price
   sum of every window of charge_minutes minutes that fits in the series. *)
C1_Optimality ==
    (Selected /\ ValidDuration) =>
        \A j \in Fitting :
            PriceSum(rates, start_idx, charge_minutes) <= PriceSum(rates, j, charge_minutes)

C1_Witness ==
    /\ pc = "fow_return" /\ ValidDuration
    /\ start_idx > 0
    /\ PriceSum(rates, 0, charge_minutes) > PriceSum(rates, start_idx, charge_minutes)

(* C2: for a valid duration every fitting window that is as cheap as the
   selected one starts at the selected index or later: among the windows
   sharing the minimal sum the earliest is selected. *)
C2_TieBreak ==
    (Selected /\ ValidDuration) =>
        \A j \in Fitting :
            (PriceSum(rates, j, charge_minutes) <= PriceSum(rates, start_idx, charge_minutes))
                => start_idx <= j

C2_Witness ==
    /\ pc = "fow_return" /\ ValidDuration
    /\ \E j \in Fitting :
          /\ j > start_idx
          /\ PriceSum(rates, j, charge_minutes) = PriceSum(rates, start_idx, charge_minutes)
    /\ \E j \in Fitting :
          PriceSum(rates, j, charge_minutes) > PriceSum(rates, start_idx, charge_minutes)

(* C3: for a valid duration the returned pair satisfies end > start. *)
C3_PaddingSafety ==
    (pc = "fow_return" /\ ValidDuration) => end > start

(* C4: find_optimal_window never returns a window when charge_minutes <= 0
   or charge_minutes >= length of the per-minute series. *)
C4_InvalidDurationFails ==
    pc = "fow_return" => ValidDuration

(* C7 as claimed: with an awake-until floor, the returned end is the floor on
   the unpadded end's date when the unpadded end's time of day is earlier than
   the floor, and the padded end otherwise; end is never moved earlier and
   start is the padded start. *)
C7_AwakeFloorUnpadded ==
    (pc = "fow_return" /\ awake_until # NoTime) =>
        /\ IF UnpaddedEnd % 1440 < awake_until
           THEN end = (UnpaddedEnd \div 1440) * 1440 + awake_until
           ELSE end = UnpaddedEnd - 1
        /\ end >= UnpaddedEnd - 1
        /\ start = UnpaddedStart + 1

(* C7 amended: the comparison and the date are those of the padded end
   (unpadded end minus one minute): if its time of day is earlier than the
   floor, end is the floor on the padded end's date, otherwise end is the
   padded end; end is never moved earlier and start is the padded start. *)
C7_AwakeFloorPadded ==
    pc = "fow_return" =>
        LET padded == UnpaddedEnd - 1
        IN  /\ IF awake_until # NoTime /\ padded % 1440 < awake_until
               THEN end = (padded \div 1440) * 1440 + awake_until
               ELSE end = padded
            /\ end >= padded
            /\ start = UnpaddedStart + 1

C7_Witness ==
    /\ pc = "fow_return"
    /\ awake_until # NoTime
    /\ (UnpaddedEnd - 1) % 1440 < awake_until
    /\ end > UnpaddedEnd - 1

(* C9 as claimed: hourly point h (hour end T, price P) yields the 60 points
   T-59min ... T, all with price P. *)
C9_ExpansionHourEnd ==
    pc = "fow_windows" =>
        /\ Len(rates) = 60 * Len(hourly)
        /\ \A h \in 1 .. Len(hourly) : \A j \in 0 .. 59 :
              rates[60 * (h - 1) + j + 1] =
                  [t |-> hourly[h].t - 59 + j, price |-> hourly[h].price]

(* C9 amended: hourly point h (hour end T, price P) yields, in input order,
   the 60 points T-60min ... T-1min, all with price P; the output has 60 x the
   input length and for a contiguous hourly input consecutive points are
   exactly one minute apart. *)
C9_ExpansionHourStart ==
    pc = "fow_windows" =>
        /\ Len(rates) = 60 * Len(hourly)
        /\ \A h \in 1 .. Len(hourly) : \A j \in 0 .. 59 :
              rates[60 * (h - 1) + j + 1] =
                  [t |-> hourly[h].t - 60 + j, price |-> hourly[h].price]
        /\ Contiguous(hourly) =>
              \A m \in 1 .. (Len(rates) - 1) : rates[m + 1].t = rates[m].t + 1

C9_Witness ==
    /\ pc = "fow_windows"
    /\ Len(hourly) >= 2
    /\ Contiguous(hourly)
    /\ hourly[1].price # hourly[2].price
    /\ Len(rates) = 60 * Len(hourly)

(* C10: for a contiguous series and a valid duration, whichever fitting window
   is selected, find_optimal_window does not fail, and the unpadded start is
   the timestamp of the selected minute and the unpadded end is exactly
   charge_minutes minutes later. *)
C10_EveryFittingWindowUsable ==
    (ValidDuration /\ Contiguous(hourly)) =>
        /\ ~(pc = "failed" /\ failed_in = "window")
        /\ pc = "fow_pad" =>
              /\ start = rates[start_idx + 1].t
              /\ end = start + charge_minutes

(* --- RAPI --- *)

Digit == <<"0", "1", "2", "3", "4", "5", "6", "7", "8", "9">>

(* plain decimal of a number below 100 *)
Dec(n) == IF n < 10 THEN <<Digit[n + 1]>> ELSE <<Digit[(n \div 10) + 1], Digit[(n % 10) + 1]>>

(* "<verb> h1 m1 h2 m2" for main's start and end *)
ScheduleText(verb) ==
    verb \o <<" ">> \o Dec((start % 1440) \div 60) \o <<" ">> \o Dec(start % 60)
         \o <<" ">> \o Dec((end % 1440) \div 60) \o <<" ">> \o Dec(end % 60)

IsSetCmd(x) == Len(x) >= 3 /\ x[1] = "$" /\ x[2] = "S" /\ x[3] = "T"

SetCmdsSent == Cardinality({i \in 1 .. Len(sent) : IsSetCmd(sent[i])})

(* x is cmd followed by "^" and a checksum *)
Carries(x, cmd) ==
    /\ Len(x) > Len(cmd) + 1
    /\ SubSeq(x, 1, Len(cmd)) = cmd
    /\ x[Len(cmd) + 1] = "^"

(* C5: the first thing set_schedule sends is "$GD"; once the query has been
   accepted, a reported value equal to "$OK h1 m1 h2 m2" sends nothing more,
   any other reported value sends exactly one "$ST h1 m1 h2 m2" after the
   query; nothing is sent anywhere else and at most two commands are sent. *)
C5_IdempotentWrite ==
    [][ /\ (pc = "main_rapi" /\ sent' # sent) => sent' = << <<"$", "G", "D", "^", "2", "7">> >>
        /\ pc = "rapi_compare" =>
              IF ret_value = ScheduleText(<<"$", "O", "K">>)
              THEN sent' = sent
              ELSE /\ Len(sent') = 2
                   /\ sent'[1] = sent[1]
                   /\ Carries(sent'[2], ScheduleText(<<"$", "S", "T">>))
        /\ pc \notin {"main_rapi", "rapi_compare"} => sent' = sent
        /\ Len(sent') <= 2 ]_vars

C5_Witness ==
    /\ pc = "done"
    /\ Len(sent) = 2
    /\ Carries(sent[2], ScheduleText(<<"$", "S", "T">>))
    /\ ret_value = <<"$", "O", "K">>

(* C6 as claimed: when set_schedule has failed, on the query call or on the
   set call, no set command has been sent. *)
C6_FailureNoWrite ==
    (pc = "failed" /\ failed_in \in {"query", "set"}) => SetCmdsSent = 0

(* C6 amended: when set_schedule fails on the query call no set command has
   been sent; when it fails on the set call exactly one set command has been
   sent, before the failure. *)
C6_QueryFailureNoWrite ==
    /\ failed_in = "query" => SetCmdsSent = 0
    /\ failed_in = "set" => (SetCmdsSent = 1 /\ IsSetCmd(sent[Len(sent)]))

C6_Witness ==
    /\ pc = "failed"
    /\ failed_in = "query"
    /\ error = "ChecksumMismatch"
    /\ Len(sent) = 1

(* the query's response has been received and validated *)
QueryAnswered ==
    \/ pc = "rapi_compare"
    \/ pc = "failed" /\ failed_in = "query" /\ error # "HTTPError"

(* ret is the framed dev_value with exactly one character of the value replaced *)
OneCharCorrupted ==
    LET framed == dev_value \o <<"^">> \o checksum(dev_value)
    IN  /\ Len(ret) = Len(framed)
        /\ Cardinality({p \in 1 .. Len(framed) : ret[p] # framed[p]}) = 1
        /\ \E p \in 1 .. Len(dev_value) : ret[p] # framed[p]

(* C8: checksum("$GD") = "27"; a response built by cmd_with_checksum is
   accepted; a response with exactly one character of the value replaced and
   the checksum left as it was is rejected with a checksum mismatch. *)
C8_ChecksumValidation ==
    /\ checksum(<<"$", "G", "D">>) = <<"2", "7">>
    /\ QueryAnswered =>
          /\ ret = cmd_with_checksum(dev_value) => pc = "rapi_compare"
          /\ OneCharCorrupted => (pc = "failed" /\ error = "ChecksumMismatch")

====
